---- MODULE Spec2Model ----
(***************************************************************************)
(* Model of bloodyAD's removal operations (bloodyAD/cli_modules/remove.py) *)
(* and of the legacy module functions (bloodyAD/modules.py) that read a    *)
(* directory attribute, compute a new value and write it back.             *)
(*                                                                         *)
(* Three specifications share the variables:                               *)
(*   SpecDns  remove.dnsRecord, one loop iteration per step                *)
(*   SpecAcl  remove.dcsync / genericAll / rbcd and modules.delRbcd        *)
(*   SpecKey  remove.shadowCredentials                                     *)
(* Python's None is the empty tuple <<>>; an optional integer n is <<n>>.  *)
(***************************************************************************)
EXTENDS Integers, Sequences, FiniteSets, TLC

VARIABLES
    dnsRecord,          \* directory: values of the dnsRecord attribute at record_dn
    args,               \* the arguments of the running call
    pc,                 \* position of the running call
    searched,           \* the attribute values the call's search returned
    idx,                \* dnsRecord(): index of the raw_record being examined
    ttl,                \* dnsRecord(): the local/parameter ttl
    tmp_record,         \* dnsRecord(): the bytes of the candidate built in this iteration
    record_to_remove,   \* dnsRecord(): the matched raw record or None
    nTSecurityDescriptor, \* directory: object -> security descriptor
    rbcdAttr,           \* directory: object -> values of msDS-AllowedToActOnBehalfOfOtherIdentity
    keyCredentialLink,  \* directory: values of msDS-KeyCredentialLink of the target
    modifies,           \* the bloodymodify / ldap_conn.modify requests issued, in order
    LOG,                \* the warnings logged
    raised,             \* the exception that ended the call, or None
    userAccountControl, \* directory: raw values of userAccountControl of the target
    finished,           \* the calls that ended before the running one: arguments, exception
    initial,            \* the directory as it was before the first call
    requests            \* the requests the directory got from concurrent calls, in order

vars == <<dnsRecord, args, pc, searched, idx, ttl, tmp_record, record_to_remove,
          nTSecurityDescriptor, rbcdAttr, keyCredentialLink, modifies, LOG, raised,
          userAccountControl, finished, initial, requests>>

\* What a single call of dnsRecord, of a revoke or of shadowCredentials leaves alone.
session == <<userAccountControl, finished, initial, requests>>

dnsLocals == <<searched, idx, ttl, tmp_record, record_to_remove>>
aclDirectory == <<nTSecurityDescriptor, rbcdAttr>>

None == <<>>

\* Python truthiness of an optional integer: None and 0 are falsy.
Truthy(opt) == opt # None /\ opt[1] # 0

(***************************************************************************)
(* Bounds                                                                  *)
(***************************************************************************)
MaxRecords == 2     \* stored dnsRecord values under one name

(***************************************************************************)
(* DNS record codec (bloodyAD.formatters.dns.Record), byte level.          *)
(* [dataLength:2][type:2][version:1][rank:1][flags:2][serial:4]            *)
(* [ttlSeconds:4][reserved:4][timestamp:4][payload]                        *)
(***************************************************************************)
LE(n, w) == [k \in 1..w |-> (n \div (256 ^ (k - 1))) % 256]
BE(n, w) == [k \in 1..w |-> (n \div (256 ^ (w - k))) % 256]

RECURSIVE FromBE(_)
FromBE(s) == IF s = <<>> THEN 0 ELSE 256 * FromBE(SubSeq(s, 1, Len(s) - 1)) + s[Len(s)]

RECURSIVE FromLE(_)
FromLE(s) == IF s = <<>> THEN 0 ELSE s[1] + 256 * FromLE(Tail(s))

TypeCode(dnstype) == IF dnstype = "A" THEN 1 ELSE 15

\* A counted name of one label: [length][labelCount][labelLength][label][0]
CountName(label) == <<Len(label) + 2, 1, Len(label)>> \o label \o <<0>>

\* The typed payload: the address bytes of an A record, (preference, name) of an MX.
Payload(data, dnstype, preference) ==
    IF dnstype = "A" THEN data ELSE BE(preference[1], 2) \o CountName(data)

\* tmp_record.fromDict(data, dnstype, ttl, rank, serial, preference, ...).getData()
fromDict(data, dnstype, ttlSeconds, rank, serial, preference) ==
    LET payload == Payload(data, dnstype, preference)
    IN  LE(Len(payload), 2) \o LE(TypeCode(dnstype), 2) \o <<5>> \o <<rank>>
        \o LE(0, 2) \o LE(serial, 4) \o BE(ttlSeconds, 4) \o LE(0, 4) \o LE(0, 4)
        \o payload

\* dns.Record(raw_record)[field]
RecordRank(raw) == raw[6]
RecordSerial(raw) == FromLE(SubSeq(raw, 9, 12))
RecordTtlSeconds(raw) == FromBE(SubSeq(raw, 13, 16))
RecordType(raw) == FromLE(SubSeq(raw, 3, 4))
RecordPayload(raw) == SubSeq(raw, 25, Len(raw))

(***************************************************************************)
(* The stored records and the requests of the DNS specification            *)
(***************************************************************************)
Addresses == {<<1, 2, 3, 4>>, <<5, 6, 7, 8>>}
Names == {<<109, 120>>}
Preferences == {10, 20}
Ttls == {0, 1800, 3600}
Ranks == {20, 240}
Serials == {5, 6}

StoredRecords ==
    {fromDict(a, "A", t, r, s, None) : a \in Addresses, t \in Ttls, r \in Ranks, s \in Serials}
    \cup {fromDict(n, "MX", 3600, 240, 5, <<p>>) : n \in Names, p \in Preferences}

\* An attribute holds a set of values: the search returns them in some order, no value twice.
RecordLists ==
    UNION {{l \in [1..n -> StoredRecords] : \A i, j \in 1..n : i # j => l[i] # l[j]}
           : n \in 0..MaxRecords}

DnsRequests ==
    {[op |-> "dnsRecord", data |-> a, dnstype |-> "A", ttl |-> t, preference |-> None]
        : a \in Addresses, t \in {None} \cup {<<x>> : x \in Ttls}}
    \cup {[op |-> "dnsRecord", data |-> n, dnstype |-> "MX", ttl |-> t, preference |-> <<p>>]
        : n \in Names, t \in {None} \cup {<<x>> : x \in Ttls}, p \in Preferences}

(***************************************************************************)
(* remove.dnsRecord                                                        *)
(***************************************************************************)
InitDns ==
    /\ dnsRecord \in RecordLists
    /\ args \in DnsRequests
    /\ pc = "search"
    /\ searched = <<>>
    /\ idx = 0
    /\ ttl = args.ttl
    /\ tmp_record = None
    /\ record_to_remove = None
    /\ nTSecurityDescriptor = <<>>
    /\ rbcdAttr = <<>>
    /\ keyCredentialLink = <<>>
    /\ modifies = <<>>
    /\ LOG = <<>>
    /\ raised = None
    /\ userAccountControl = <<>>
    /\ finished = <<>>
    /\ initial = <<>>
    /\ requests = <<>>

\* next(conn.ldap.bloodysearch(record_dn, attr="dnsRecord", raw=True))["dnsRecord"]
dnsSearch ==
    /\ pc = "search"
    /\ searched' = dnsRecord
    /\ idx' = 1
    /\ pc' = "loop"
    /\ UNCHANGED <<dnsRecord, args, ttl, tmp_record, record_to_remove,
                   aclDirectory, keyCredentialLink, modifies, LOG, raised, session>>

\* The ttl the candidate of this iteration is built with.
loopTtl(cur, record) == IF ~Truthy(cur) THEN <<RecordTtlSeconds(record)>> ELSE cur

\* Mutant: the rank is decoded once, from the first record of the list.
loopRankOfFirst(records, i) == RecordRank(records[1])

\* The rank and serial the candidate of this iteration is built with.
loopRank(records, i) == RecordRank(records[i])
loopSerial(records, i) == RecordSerial(records[i])

\* Mutant: only the record types are compared.
recordMatchesTypeOnly(candidate, raw_record) == RecordType(candidate) = RecordType(raw_record)

\* if tmp_record.getData() == raw_record
recordMatches(candidate, raw_record) == candidate = raw_record

\* Mutant: the early return on "no match" is missing.
notFoundNever(found) == FALSE

\* if not record_to_remove
notFound(found) == found = None

\* One iteration of the for loop over the raw records.
dnsLoop ==
    /\ pc = "loop"
    /\ idx <= Len(searched)
    /\ LET raw_record == searched[idx]
           newTtl == loopTtl(ttl, raw_record)
           candidate == fromDict(args.data, args.dnstype, newTtl[1],
                                 loopRank(searched, idx), loopSerial(searched, idx),
                                 args.preference)
       IN  /\ ttl' = newTtl
           /\ tmp_record' = candidate
           /\ IF recordMatches(candidate, raw_record)
                 THEN /\ record_to_remove' = raw_record
                      /\ pc' = "after"
                      /\ idx' = idx
                 ELSE /\ record_to_remove' = record_to_remove
                      /\ pc' = "loop"
                      /\ idx' = idx + 1
    /\ UNCHANGED <<dnsRecord, args, searched, aclDirectory, keyCredentialLink,
                   modifies, LOG, raised, session>>

\* The loop is exhausted without a break.
dnsLoopEnd ==
    /\ pc = "loop"
    /\ idx > Len(searched)
    /\ pc' = "after"
    /\ UNCHANGED <<dnsRecord, args, dnsLocals, aclDirectory, keyCredentialLink,
                   modifies, LOG, raised, session>>

\* The directory's MODIFY_DELETE of one value of an attribute.
ModifyDelete(values, value) == SelectSeq(values, LAMBDA v : v # value)

\* if not record_to_remove: warn and return; else bloodymodify(MODIFY_DELETE).
dnsFinish ==
    /\ pc = "after"
    /\ IF notFound(record_to_remove)
          THEN /\ LOG' = Append(LOG, "[!] Record not found")
               /\ UNCHANGED <<dnsRecord, modifies>>
          ELSE /\ modifies' = Append(modifies, [attr |-> "dnsRecord", op |-> "MODIFY_DELETE",
                                                value |-> record_to_remove])
               /\ dnsRecord' = ModifyDelete(dnsRecord, record_to_remove)
               /\ UNCHANGED LOG
    /\ pc' = "done"
    /\ UNCHANGED <<args, dnsLocals, aclDirectory, keyCredentialLink, raised, session>>

NextDns == dnsSearch \/ dnsLoop \/ dnsLoopEnd \/ dnsFinish

SpecDns == InitDns /\ [][NextDns]_vars

(***************************************************************************)
(* Security descriptors.  An ACE is [AceType, Mask, Sid, ObjectType]; a    *)
(* security descriptor is [Owner, Group, Sacl, Dacl], Dacl the ordered     *)
(* sequence of its ACEs.                                                   *)
(***************************************************************************)
MaxAces == 3        \* entries of a DACL in the initial directory

ADS_RIGHT_DS_CONTROL_ACCESS == 256
FULL_CONTROL == 983551
DACL_SECURITY_INFORMATION == 4

Objects == {"domainNC", "target"}
Sids == {"S-1-5-21-1104", "S-1-5-21-1105"}
\* What a caller passes as trustee / service: a SID string or a sAMAccountName.
Trustees == Sids \cup {"alice"}
objectSid(name) == "S-1-5-21-1104"

GetChanges == "1131f6aa-9c07-11d1-f79f-00c04fc2dcd2"
GetChangesAll == "1131f6ad-9c07-11d1-f79f-00c04fc2dcd2"

Aces ==
    {[AceType |-> "ACCESS_ALLOWED", Mask |-> m, Sid |-> s, ObjectType |-> None]
        : m \in {ADS_RIGHT_DS_CONTROL_ACCESS, FULL_CONTROL}, s \in Sids}
    \cup {[AceType |-> "ACCESS_DENIED", Mask |-> ADS_RIGHT_DS_CONTROL_ACCESS, Sid |-> s,
           ObjectType |-> None] : s \in Sids}
    \cup {[AceType |-> "ACCESS_ALLOWED_OBJECT", Mask |-> ADS_RIGHT_DS_CONTROL_ACCESS,
           Sid |-> s, ObjectType |-> <<g>>] : s \in Sids, g \in {GetChanges, GetChangesAll}}

Dacls == UNION {[1..n -> Aces] : n \in 0..MaxAces}

\* The descriptor the directory stores for an object, and the delegation descriptor.
StoredSD(dacl) ==
    [Owner |-> <<"S-1-5-32-544">>, Group |-> <<"S-1-5-32-544">>,
     Sacl |-> <<[AceType |-> "SYSTEM_AUDIT", Mask |-> FULL_CONTROL, Sid |-> "S-1-1-0",
                 ObjectType |-> None]>>,
     Dacl |-> dacl]

\* utils.createEmptySD(): a descriptor with an empty DACL, no group and no SACL.
createEmptySD == [Owner |-> <<"S-1-5-32-544">>, Group |-> None, Sacl |-> None, Dacl |-> <<>>]

\* SR_SECURITY_DESCRIPTOR.getData(): the self-relative form, the ACL carrying its AceCount.
getData(sd) ==
    [Revision |-> 1, Owner |-> sd.Owner, Group |-> sd.Group, Sacl |-> sd.Sacl,
     Dacl |-> [AceCount |-> Len(sd.Dacl), Data |-> sd.Dacl]]

\* SR_SECURITY_DESCRIPTOR(data=...): the structure parsed from the self-relative form.
SR_SECURITY_DESCRIPTOR(data) ==
    [Owner |-> data.Owner, Group |-> data.Group, Sacl |-> data.Sacl,
     Dacl |-> SubSeq(data.Dacl.Data, 1, data.Dacl.AceCount)]

\* "s-1-" in trustee.lower()
looksLikeSid(trustee) == trustee \in Sids

\* trustee_sid: the trustee itself when it is a SID, else the objectSid found by a search.
resolveSid(trustee) == IF looksLikeSid(trustee) THEN trustee ELSE objectSid(trustee)

\* modules.getObjectSID(conn, identity): the objectSid of the object the identity names.
getObjectSID(identity) == IF identity \in Sids THEN identity ELSE objectSid(identity)

\* The search of nTSecurityDescriptor under the SD-flags control returns the parts of
\* the stored descriptor the flags name.
searchSD(object, sdflags) ==
    IF sdflags = DACL_SECURITY_INFORMATION
       THEN [Owner |-> None, Group |-> None, Sacl |-> None,
             Dacl |-> nTSecurityDescriptor[object].Dacl]
       ELSE nTSecurityDescriptor[object]

\* remove.rbcd, line 188: control_flag = 0, a search without the SD-flags control.
control_flag == 0

\* The control utils.getSD searches nTSecurityDescriptor under when the caller names
\* none: either no control, or the DACL-only control.
GetSDControlFlags == {control_flag, DACL_SECURITY_INFORMATION}

\* utils.getSD(conn, object): the nTSecurityDescriptor of the object, as the search
\* under the control returns it.
getSD(object, sdflags) == SR_SECURITY_DESCRIPTOR(getData(searchSD(object, sdflags)))

\* utils.getSD(conn, object, "msDS-AllowedToActOnBehalfOfOtherIdentity", 0): the stored
\* descriptor, or an empty descriptor when the attribute holds no value.
getRbcdSD(object) ==
    IF Len(rbcdAttr[object]) > 0 THEN SR_SECURITY_DESCRIPTOR(rbcdAttr[object][1])
    ELSE createEmptySD

\* utils.delRight(sd, sid, mask, object_type): drops every ACE of the DACL whose trustee is
\* sid and, when a mask is given, whose mask equals it and, when an object type is given,
\* whose object type equals it; the other ACEs keep their order.
RECURSIVE delRightAces(_, _, _, _)
delRightAces(aces, sid, mask, object_type) ==
    IF aces = <<>> THEN <<>>
    ELSE LET ace == Head(aces)
             rest == delRightAces(Tail(aces), sid, mask, object_type)
         IN  IF /\ ace.Sid = sid
                /\ (mask = None \/ ace.Mask = mask[1])
                /\ (object_type = None \/ ace.ObjectType = object_type)
                THEN rest ELSE <<ace>> \o rest

delRight(sd, sid, mask, object_type) ==
    [sd EXCEPT !.Dacl = delRightAces(sd.Dacl, sid, mask, object_type)]

\* The directory's MODIFY_REPLACE of nTSecurityDescriptor under the SD-flags control:
\* only the parts the flags name are replaced.
ReplaceSD(stored, data, sdflags) ==
    LET new == SR_SECURITY_DESCRIPTOR(data)
    IN  IF sdflags = DACL_SECURITY_INFORMATION THEN [stored EXCEPT !.Dacl = new.Dacl]
        ELSE new

InitAcl ==
    /\ \E dacl \in Dacls, stored \in BOOLEAN :
          /\ nTSecurityDescriptor = [o \in Objects |-> StoredSD(dacl)]
          /\ rbcdAttr = [o \in Objects |->
                            IF stored THEN <<getData([createEmptySD EXCEPT !.Dacl = dacl])>>
                            ELSE <<>>]
    /\ args = [op |-> "none"]
    /\ pc = "idle"
    /\ searched = <<>>
    /\ idx = 0
    /\ ttl = None
    /\ tmp_record = None
    /\ record_to_remove = None
    /\ dnsRecord = <<>>
    /\ keyCredentialLink = <<>>
    /\ modifies = <<>>
    /\ LOG = <<>>
    /\ raised = None
    /\ userAccountControl = <<>>
    /\ finished = <<>>
    /\ initial = <<>>
    /\ requests = <<>>

aclFrame == <<dnsRecord, idx, ttl, tmp_record, record_to_remove, keyCredentialLink, session>>

\* Mutant: dcsync calls delRight without the access mask.
dcsyncAccessMaskOmitted == None

\* remove.dcsync: access_mask = ACCESS_FLAGS["ADS_RIGHT_DS_CONTROL_ACCESS"]
dcsyncAccessMask == <<ADS_RIGHT_DS_CONTROL_ACCESS>>

\* Mutant: dcsync revokes the right on the first replication GUID only.
dcsyncObjectTypeGetChanges == <<GetChanges>>

\* remove.dcsync: utils.delRight(new_sd, trustee_sid, access_mask) names no object type.
dcsyncObjectType == None

\* Mutant: dcsync sends the modify request without the SD-flags control.
dcsyncControlsOmitted == control_flag

\* remove.dcsync: controls = security_descriptor_control(sdflags=DACL_SECURITY_INFORMATION)
dcsyncControls == DACL_SECURITY_INFORMATION

\* remove.dcsync(conn, trustee)
dcsync(trustee) ==
    /\ pc = "idle"
    /\ \E sdflags \in GetSDControlFlags :
       LET new_sd == delRight(getSD("domainNC", sdflags), resolveSid(trustee),
                              dcsyncAccessMask, dcsyncObjectType)
       IN  /\ nTSecurityDescriptor' =
                 [nTSecurityDescriptor EXCEPT !["domainNC"] =
                     ReplaceSD(@, getData(new_sd), dcsyncControls)]
           /\ modifies' = Append(modifies,
                 [dn |-> "domainNC", attr |-> "nTSecurityDescriptor", op |-> "MODIFY_REPLACE",
                  value |-> <<getData(new_sd)>>, controls |-> dcsyncControls])
           /\ searched' = <<getData(getSD("domainNC", sdflags))>>
    /\ args' = [op |-> "dcsync", target |-> "domainNC", sid |-> resolveSid(trustee)]
    /\ pc' = "done"
    /\ UNCHANGED <<rbcdAttr, aclFrame, LOG, raised>>

\* remove.genericAll: utils.delRight(new_sd, trustee_sid) is called without a mask.
genericAllAccessMask == None

\* remove.genericAll: controls = security_descriptor_control(sdflags=DACL_SECURITY_INFORMATION)
genericAllControls == DACL_SECURITY_INFORMATION

\* remove.genericAll(conn, target, trustee)
genericAll(target, trustee) ==
    /\ pc = "idle"
    /\ \E sdflags \in GetSDControlFlags :
       LET new_sd == delRight(getSD(target, sdflags), resolveSid(trustee),
                              genericAllAccessMask, None)
       IN  /\ nTSecurityDescriptor' =
                 [nTSecurityDescriptor EXCEPT ![target] =
                     ReplaceSD(@, getData(new_sd), genericAllControls)]
           /\ modifies' = Append(modifies,
                 [dn |-> target, attr |-> "nTSecurityDescriptor", op |-> "MODIFY_REPLACE",
                  value |-> <<getData(new_sd)>>, controls |-> genericAllControls])
           /\ searched' = <<getData(getSD(target, sdflags))>>
    /\ args' = [op |-> "genericAll", target |-> target, sid |-> resolveSid(trustee)]
    /\ pc' = "done"
    /\ UNCHANGED <<rbcdAttr, aclFrame, LOG, raised>>

\* Mutant: the descriptor is written whatever the number of entries left.
rbcdAttrValuesAlways(new_sd) == <<getData(new_sd)>>

\* remove.rbcd: attr_values = []; if len(new_sd["Dacl"].aces) > 0: append(new_sd.getData())
rbcdAttrValues(new_sd) == IF Len(new_sd.Dacl) > 0 THEN <<getData(new_sd)>> ELSE <<>>

\* remove.rbcd(conn, target, service)
rbcd(target, service) ==
    /\ pc = "idle"
    /\ LET new_sd == delRight(getRbcdSD(target), resolveSid(service),
                              <<ADS_RIGHT_DS_CONTROL_ACCESS>>, None)
       IN  /\ rbcdAttr' = [rbcdAttr EXCEPT ![target] = rbcdAttrValues(new_sd)]
           /\ modifies' = Append(modifies,
                 [dn |-> target, attr |-> "msDS-AllowedToActOnBehalfOfOtherIdentity",
                  op |-> "MODIFY_REPLACE", value |-> rbcdAttrValues(new_sd), controls |-> 0])
    /\ searched' = rbcdAttr[target]
    /\ args' = [op |-> "rbcd", target |-> target, sid |-> resolveSid(service)]
    /\ pc' = "done"
    /\ UNCHANGED <<nTSecurityDescriptor, aclFrame, LOG, raised>>

\* modules.delRbcd, line 354: spn_sid = getObjectSID(conn, spn_sid).  The assignment makes
\* spn_sid a local of the function, so the argument read on the right-hand side is the
\* local before it is bound (the parameter is spn_id): Python raises UnboundLocalError.
\* The value of that argument: None stands for "not bound".
delRbcdSidArgument(spn_id) == None

\* modules.delRbcd: the loop that keeps the ACEs of the other trustees.
delRbcdAcesToKeep(aces, spn_sid) == SelectSeq(aces, LAMBDA ace : ace.Sid # spn_sid)

\* modules.delRbcd: the attribute is removed when there is no ACE to keep.
delRbcdAttrValues(sd, aces_to_keep) ==
    IF Len(aces_to_keep) < 1 THEN <<>> ELSE <<getData([sd EXCEPT !.Dacl = aces_to_keep])>>

\* modules.delRbcd(conn, spn_id, target_id)
delRbcd(spn_id, target_id) ==
    /\ pc = "idle"
    /\ args' = [op |-> "delRbcd", target |-> target_id, sid |-> getObjectSID(spn_id)]
    /\ pc' = "done"
    /\ IF delRbcdSidArgument(spn_id) = None
          THEN /\ raised' = <<"UnboundLocalError">>
               /\ UNCHANGED <<rbcdAttr, modifies, searched, LOG>>
          ELSE /\ searched' = rbcdAttr[target_id]
               /\ IF Len(rbcdAttr[target_id]) < 1
                     THEN /\ LOG' = Append(LOG, "The attribute doesn't exist")
                          /\ UNCHANGED <<rbcdAttr, modifies, raised>>
                     ELSE LET sd == SR_SECURITY_DESCRIPTOR(rbcdAttr[target_id][1])
                              attr_values == delRbcdAttrValues(sd,
                                  delRbcdAcesToKeep(sd.Dacl, getObjectSID(delRbcdSidArgument(spn_id)[1])))
                          IN  /\ rbcdAttr' = [rbcdAttr EXCEPT ![target_id] = attr_values]
                              /\ modifies' = Append(modifies,
                                    [dn |-> target_id,
                                     attr |-> "msDS-AllowedToActOnBehalfOfOtherIdentity",
                                     op |-> "MODIFY_REPLACE", value |-> attr_values,
                                     controls |-> 0])
                              /\ UNCHANGED <<LOG, raised>>
    /\ UNCHANGED <<nTSecurityDescriptor, aclFrame>>

\* utils.createACE(sid, object_type, access_mask): an object ACE of the extended right.
createACE(sid, object_type, access_mask) ==
    [AceType |-> "ACCESS_ALLOWED_OBJECT", Mask |-> access_mask, Sid |-> sid,
     ObjectType |-> <<object_type>>]

\* modules.addDomainSync, line 231: dn = entry.entry_dn.  No name entry is bound in the
\* function or in the module, so Python raises NameError before the modify request.
\* The value of that name: None stands for "not bound".
addDomainSyncEntry == None

\* modules.addDomainSync(conn, identity)
addDomainSync(identity) ==
    /\ pc = "idle"
    /\ args' = [op |-> "addDomainSync", target |-> "domainNC", sid |-> getObjectSID(identity)]
    /\ pc' = "done"
    /\ searched' = <<getData(searchSD("domainNC", DACL_SECURITY_INFORMATION))>>
    /\ LET user_sid == getObjectSID(identity)
           secDesc == SR_SECURITY_DESCRIPTOR(
                          getData(searchSD("domainNC", DACL_SECURITY_INFORMATION)))
           data == getData([secDesc EXCEPT !.Dacl =
                       @ \o <<createACE(user_sid, GetChanges, ADS_RIGHT_DS_CONTROL_ACCESS),
                              createACE(user_sid, GetChangesAll, ADS_RIGHT_DS_CONTROL_ACCESS)>>])
       IN  IF addDomainSyncEntry = None
              THEN /\ raised' = <<"NameError">>
                   /\ UNCHANGED <<nTSecurityDescriptor, modifies>>
              ELSE /\ nTSecurityDescriptor' =
                         [nTSecurityDescriptor EXCEPT ![addDomainSyncEntry[1]] =
                             ReplaceSD(@, data, DACL_SECURITY_INFORMATION)]
                   /\ modifies' = Append(modifies,
                         [dn |-> addDomainSyncEntry[1], attr |-> "nTSecurityDescriptor",
                          op |-> "MODIFY_REPLACE", value |-> <<data>>,
                          controls |-> DACL_SECURITY_INFORMATION])
                   /\ UNCHANGED raised
    /\ UNCHANGED <<rbcdAttr, aclFrame, LOG>>

NextAcl ==
    \/ \E trustee \in Trustees : dcsync(trustee)
    \/ \E target \in Objects, trustee \in Trustees : genericAll(target, trustee)
    \/ \E target \in Objects, service \in Trustees : rbcd(target, service)
    \/ \E target \in Objects, spn \in Trustees : delRbcd(spn, target)
    \/ \E identity \in Trustees : addDomainSync(identity)

SpecAcl == InitAcl /\ [][NextAcl]_vars

(***************************************************************************)
(* The grant operations of modules.py, and sequences of calls: a grant     *)
(* followed by a second grant or by the revoke of the same right.          *)
(***************************************************************************)
MaxCalls == 2
MaxGrantAces == 2

\* The names a caller passes as gpo: the name of a stored policy container, or a name
\* no container carries.
Gpos == {"target", "no-such-gpo"}

\* ldap_conn.result['result']: success, or insufficientAccessRights.
ResultCodes == {0, 50}

\* utils.createACE(sid) with the default object type and access mask.
createACEOfSid(sid) ==
    [AceType |-> "ACCESS_ALLOWED", Mask |-> FULL_CONTROL, Sid |-> sid, ObjectType |-> None]

\* modules.setRbcd, line 322: spn_sid = getObjectSID(conn, spn_sid).  The assignment makes
\* spn_sid a local of the function, so the argument read on the right-hand side is the
\* local before it is bound (the parameter is spn_id): Python raises UnboundLocalError.
\* The value of that argument: None stands for "not bound".
setRbcdSidArgument(spn_id) == None

\* modules.setRbcd(conn, spn_id, target_id)
setRbcd(spn_id, target_id) ==
    /\ pc = "idle"
    /\ args' = [op |-> "setRbcd", target |-> target_id, sid |-> getObjectSID(spn_id)]
    /\ pc' = "done"
    /\ IF setRbcdSidArgument(spn_id) = None
          THEN /\ raised' = <<"UnboundLocalError">>
               /\ UNCHANGED <<rbcdAttr, modifies, searched, LOG>>
          ELSE \E result \in ResultCodes :
               LET rbcd_attrs == rbcdAttr[target_id]
                   sd == IF Len(rbcd_attrs) > 0 THEN SR_SECURITY_DESCRIPTOR(rbcd_attrs[1])
                         ELSE createEmptySD
                   spn_sid == getObjectSID(setRbcdSidArgument(spn_id)[1])
                   data == getData([sd EXCEPT !.Dacl = Append(@, createACEOfSid(spn_sid))])
               IN  /\ searched' = rbcd_attrs
                   /\ modifies' = Append(modifies,
                         [dn |-> target_id,
                          attr |-> "msDS-AllowedToActOnBehalfOfOtherIdentity",
                          op |-> "MODIFY_REPLACE", value |-> <<data>>, controls |-> 0])
                   /\ IF result = 0
                         THEN /\ rbcdAttr' = [rbcdAttr EXCEPT ![target_id] = <<data>>]
                              /\ LOG' = LOG \o <<"Delegation rights modified successfully!",
                                                 "can now impersonate users via S4U2Proxy">>
                              /\ UNCHANGED raised
                         ELSE /\ raised' = <<"ResultError">>
                              /\ UNCHANGED <<rbcdAttr, LOG>>
    /\ UNCHANGED <<nTSecurityDescriptor, aclFrame>>

\* modules.modifyGpoACL(conn, identity, gpo)
modifyGpoACL(identity, gpo) ==
    /\ pc = "idle"
    /\ args' = [op |-> "modifyGpoACL", target |-> gpo, sid |-> getObjectSID(identity)]
    /\ pc' = "done"
    /\ IF gpo \notin Objects
          THEN /\ raised' = <<"NoResultError">>
               /\ searched' = <<>>
               /\ UNCHANGED <<nTSecurityDescriptor, modifies, LOG>>
          ELSE \E result \in ResultCodes :
               LET user_sid == getObjectSID(identity)
                   secDescData == getData(searchSD(gpo, DACL_SECURITY_INFORMATION))
                   secDesc == SR_SECURITY_DESCRIPTOR(secDescData)
                   newace == createACEOfSid(user_sid)
                   data == getData([secDesc EXCEPT !.Dacl = Append(@, newace)])
               IN  /\ searched' = <<secDescData>>
                   /\ modifies' = Append(modifies,
                         [dn |-> gpo, attr |-> "nTSecurityDescriptor",
                          op |-> "MODIFY_REPLACE", value |-> <<data>>,
                          controls |-> DACL_SECURITY_INFORMATION])
                   /\ IF result = 0
                         THEN /\ nTSecurityDescriptor' =
                                    [nTSecurityDescriptor EXCEPT ![gpo] =
                                        ReplaceSD(@, data, DACL_SECURITY_INFORMATION)]
                              /\ LOG' = Append(LOG,
                                    "LDAP server claims to have taken the secdescriptor. Have fun")
                              /\ UNCHANGED raised
                         ELSE /\ raised' = <<"ResultError">>
                              /\ UNCHANGED <<nTSecurityDescriptor, LOG>>
    /\ UNCHANGED <<rbcdAttr, aclFrame>>

\* The next call of a registered function: the call before it has ended, with its
\* exception if it raised one; the directory and the log keep what the calls left.
newCall ==
    /\ pc = "done"
    /\ Len(finished) < MaxCalls - 1
    /\ finished' = Append(finished, [args |-> args, raised |-> raised])
    /\ pc' = "idle"
    /\ args' = [op |-> "none"]
    /\ searched' = <<>>
    /\ raised' = None
    /\ UNCHANGED <<dnsRecord, idx, ttl, tmp_record, record_to_remove, aclDirectory,
                   keyCredentialLink, modifies, LOG, userAccountControl, initial, requests>>

GrantDacls == UNION {[1..n -> Aces] : n \in 0..MaxGrantAces}

InitGrant ==
    /\ \E dacl \in GrantDacls, stored \in BOOLEAN :
          /\ nTSecurityDescriptor = [o \in Objects |-> StoredSD(dacl)]
          /\ rbcdAttr = [o \in Objects |->
                            IF stored THEN <<getData([createEmptySD EXCEPT !.Dacl = dacl])>>
                            ELSE <<>>]
    /\ initial = [nTSecurityDescriptor |-> nTSecurityDescriptor, rbcdAttr |-> rbcdAttr]
    /\ args = [op |-> "none"]
    /\ pc = "idle"
    /\ searched = <<>>
    /\ idx = 0
    /\ ttl = None
    /\ tmp_record = None
    /\ record_to_remove = None
    /\ dnsRecord = <<>>
    /\ keyCredentialLink = <<>>
    /\ modifies = <<>>
    /\ LOG = <<>>
    /\ raised = None
    /\ userAccountControl = <<>>
    /\ finished = <<>>
    /\ requests = <<>>

NextGrant ==
    \/ \E spn \in Trustees, target \in Objects : setRbcd(spn, target)
    \/ \E identity \in Trustees : addDomainSync(identity)
    \/ \E identity \in Trustees, gpo \in Gpos : modifyGpoACL(identity, gpo)
    \/ \E target \in Objects, service \in Trustees : rbcd(target, service)
    \/ \E target \in Objects, spn \in Trustees : delRbcd(spn, target)
    \/ newCall

SpecGrant == InitGrant /\ [][NextGrant]_vars

(***************************************************************************)
(* remove.shadowCredentials.  A key credential value is a DN-with-binary   *)
(* string whose blob carries the key id; the key argument is a hex string, *)
(* here the sequence of its characters.                                    *)
(***************************************************************************)
MaxKeyCreds == 3    \* stored msDS-KeyCredentialLink values of the target

KeyIDs == {<<171>>, <<205>>, <<239>>}
DeviceIds == {1, 2}

\* A stored value: B:<length>:<blob>:<owner DN>, the blob holding the key id.
KeyCredentials ==
    {[dn |-> "CN=target", blob |-> [KeyID |-> k, DeviceId |-> d]] : k \in KeyIDs, d \in DeviceIds}

KeyCredentialLists ==
    UNION {{l \in [1..n -> KeyCredentials] : \A i, j \in 1..n : i # j => l[i] # l[j]}
           : n \in 0..MaxKeyCreds}

\* The key argument: None, or the characters of a string.
KeyArguments ==
    {None, <<"a", "b">>, <<"A", "B">>, <<"c", "d">>, <<"0", "1">>, <<"a", "b", "c">>, <<"z", "z">>}

HexDigits == <<"0", "1", "2", "3", "4", "5", "6", "7", "8", "9", "a", "b", "c", "d", "e", "f">>
UpperHexDigits == <<"0", "1", "2", "3", "4", "5", "6", "7", "8", "9", "A", "B", "C", "D", "E", "F">>

IsHexDigit(c) == \E v \in 1..16 : HexDigits[v] = c \/ UpperHexDigits[v] = c
HexValue(c) == (CHOOSE v \in 1..16 : HexDigits[v] = c \/ UpperHexDigits[v] = c) - 1

\* binascii.unhexlify raises binascii.Error on an odd length or a non-hexadecimal digit.
unhexlifyRaises(key) ==
    Len(key) % 2 = 1 \/ \E i \in 1..Len(key) : ~IsHexDigit(key[i])

\* binascii.unhexlify(key): one byte for every two digits, upper or lower case.
unhexlify(key) ==
    [i \in 1..(Len(key) \div 2) |-> 16 * HexValue(key[2 * i - 1]) + HexValue(key[2 * i])]

\* cryptography.KEYCREDENTIALLINK_BLOB(common.DNBinary(keyCred).value).getKeyID()
getKeyID(keyCred) == keyCred.blob.KeyID

\* Mutant: the test keeps the entries whose key id equals the key.
keepsKeyCredInverted(key, keyCred) == key # None /\ getKeyID(keyCred) = unhexlify(key)

\* if key and key_blob.getKeyID() != binascii.unhexlify(key): the entry is kept.
keepsKeyCred(key, keyCred) == key # None /\ getKeyID(keyCred) # unhexlify(key)

\* The for loop: (newKeyCreds, isFound) after the entries of keyCreds.
RECURSIVE keyCredLoop(_, _)
keyCredLoop(keyCreds, key) ==
    IF keyCreds = <<>> THEN [newKeyCreds |-> <<>>, isFound |-> FALSE]
    ELSE LET n == Len(keyCreds)
             before == keyCredLoop(SubSeq(keyCreds, 1, n - 1), key)
         IN  IF keepsKeyCred(key, keyCreds[n])
                THEN [before EXCEPT !.newKeyCreds = Append(@, keyCreds[n])]
                ELSE [before EXCEPT !.isFound = TRUE]

InitKey ==
    /\ keyCredentialLink \in KeyCredentialLists
    /\ args = [op |-> "none"]
    /\ pc = "idle"
    /\ searched = <<>>
    /\ idx = 0
    /\ ttl = None
    /\ tmp_record = None
    /\ record_to_remove = None
    /\ dnsRecord = <<>>
    /\ nTSecurityDescriptor = <<>>
    /\ rbcdAttr = <<>>
    /\ modifies = <<>>
    /\ LOG = <<>>
    /\ raised = None
    /\ userAccountControl = <<>>
    /\ finished = <<>>
    /\ initial = <<>>
    /\ requests = <<>>

\* remove.shadowCredentials(conn, target, key)
shadowCredentials(key) ==
    /\ pc = "idle"
    /\ args' = [op |-> "shadowCredentials", target |-> "target", key |-> key]
    /\ searched' = keyCredentialLink
    /\ pc' = "done"
    /\ IF key # None /\ keyCredentialLink # <<>> /\ unhexlifyRaises(key)
          THEN /\ raised' = <<"binascii.Error">>
               /\ UNCHANGED <<keyCredentialLink, modifies, LOG>>
          ELSE LET r == keyCredLoop(keyCredentialLink, key)
               IN  /\ LOG' = IF ~r.isFound THEN Append(LOG, "[!] No key found") ELSE LOG
                   /\ modifies' = Append(modifies,
                         [dn |-> "target", attr |-> "msDS-KeyCredentialLink",
                          op |-> "MODIFY_REPLACE", value |-> r.newKeyCreds, controls |-> 0])
                   /\ keyCredentialLink' = r.newKeyCreds
                   /\ UNCHANGED raised
    /\ UNCHANGED <<dnsRecord, idx, ttl, tmp_record, record_to_remove, aclDirectory, session>>

NextKey == \E key \in KeyArguments : shadowCredentials(key)

SpecKey == InitKey /\ [][NextKey]_vars

(***************************************************************************)
(* Two calls of remove operations at the same time, on different objects.  *)
(* A call is two requests to the directory, the search and the modify; the *)
(* requests of the two calls reach the directory in any order.  Here pc,   *)
(* args and raised hold one value per call, and searched holds the locals  *)
(* each call keeps between its two requests.                               *)
(***************************************************************************)
MaxConcValues == 1

Calls == {"c1", "c2"}

ConcAces ==
    {[AceType |-> "ACCESS_ALLOWED", Mask |-> ADS_RIGHT_DS_CONTROL_ACCESS, Sid |-> s,
      ObjectType |-> None] : s \in Sids}
    \cup {[AceType |-> "ACCESS_ALLOWED", Mask |-> FULL_CONTROL, Sid |-> "S-1-5-21-1104",
           ObjectType |-> None]}

\* The values of the delegation attribute of an object: none, or one descriptor.
ConcRbcdValues ==
    {<<>>} \cup {<<getData([createEmptySD EXCEPT !.Dacl = dacl])>> :
                    dacl \in UNION {[1..n -> ConcAces] : n \in 1..MaxConcValues}}

ConcKeyCredentialLists ==
    {l \in UNION {[1..n -> KeyCredentials] : n \in 0..MaxConcValues} :
        /\ \A i \in 1..Len(l) : l[i].blob.DeviceId = 1 /\ l[i].blob.KeyID # <<239>>
        /\ \A i, j \in 1..Len(l) : i # j => l[i] # l[j]}

ConcKeyArguments == {None, <<"a", "b">>, <<"z", "z">>}

\* Mutant: the locals are module-level names, one set for all calls.
frameShared(call) == "c1"

\* The locals of a function are bound in the frame of the call.
frame(call) == call

\* No other call that has started works on the object.
ObjectIsFree(call, object) ==
    \A other \in Calls \ {call} :
        IF pc[other] = "idle" THEN TRUE ELSE args[other].target # object

concFrame == <<dnsRecord, idx, ttl, tmp_record, record_to_remove, nTSecurityDescriptor,
               userAccountControl, finished, initial>>

\* remove.shadowCredentials, lines 224-226: keyCreds = next(bloodysearch(target, ...))
shadowCredentialsSearch(call, key) ==
    /\ pc[call] = "idle"
    /\ ObjectIsFree(call, "target")
    /\ args' = [args EXCEPT ![call] = [op |-> "shadowCredentials", target |-> "target",
                                       key |-> key]]
    /\ searched' = [searched EXCEPT ![frame(call)].keyCreds = keyCredentialLink]
    /\ requests' = Append(requests, [call |-> call, request |-> "search"])
    /\ pc' = [pc EXCEPT ![call] = "modify"]
    /\ UNCHANGED <<keyCredentialLink, rbcdAttr, modifies, LOG, raised, concFrame>>

\* remove.shadowCredentials, lines 227-246: the loop over keyCreds and the bloodymodify
shadowCredentialsModify(call) ==
    /\ pc[call] = "modify"
    /\ args[call].op = "shadowCredentials"
    /\ pc' = [pc EXCEPT ![call] = "done"]
    /\ LET key == args[call].key
           keyCreds == searched[frame(call)].keyCreds
       IN  IF key # None /\ keyCreds # <<>> /\ unhexlifyRaises(key)
              THEN /\ raised' = [raised EXCEPT ![call] = <<"binascii.Error">>]
                   /\ UNCHANGED <<keyCredentialLink, modifies, LOG, requests>>
              ELSE LET r == keyCredLoop(keyCreds, key)
                   IN  /\ LOG' = IF ~r.isFound THEN Append(LOG, "[!] No key found") ELSE LOG
                       /\ modifies' = Append(modifies,
                             [dn |-> args[call].target, attr |-> "msDS-KeyCredentialLink",
                              op |-> "MODIFY_REPLACE", value |-> r.newKeyCreds,
                              controls |-> 0])
                       /\ requests' = Append(requests, [call |-> call, request |-> "modify"])
                       /\ keyCredentialLink' = r.newKeyCreds
                       /\ UNCHANGED raised
    /\ UNCHANGED <<args, searched, rbcdAttr, concFrame>>

\* remove.rbcd, lines 188-191: new_sd, _ = utils.getSD(conn, target, attribute, 0)
rbcdSearch(call, target, service) ==
    /\ pc[call] = "idle"
    /\ ObjectIsFree(call, target)
    /\ args' = [args EXCEPT ![call] = [op |-> "rbcd", target |-> target,
                                       sid |-> resolveSid(service)]]
    /\ searched' = [searched EXCEPT ![frame(call)].new_sd = getRbcdSD(target)]
    /\ requests' = Append(requests, [call |-> call, request |-> "search"])
    /\ pc' = [pc EXCEPT ![call] = "modify"]
    /\ UNCHANGED <<keyCredentialLink, rbcdAttr, modifies, LOG, raised, concFrame>>

\* remove.rbcd, lines 192-212: utils.delRight on the local new_sd and the bloodymodify
rbcdModify(call) ==
    /\ pc[call] = "modify"
    /\ args[call].op = "rbcd"
    /\ pc' = [pc EXCEPT ![call] = "done"]
    /\ LET new_sd == delRight(searched[frame(call)].new_sd, args[call].sid,
                              <<ADS_RIGHT_DS_CONTROL_ACCESS>>, None)
       IN  /\ rbcdAttr' = [rbcdAttr EXCEPT ![args[call].target] = rbcdAttrValues(new_sd)]
           /\ modifies' = Append(modifies,
                 [dn |-> args[call].target,
                  attr |-> "msDS-AllowedToActOnBehalfOfOtherIdentity",
                  op |-> "MODIFY_REPLACE", value |-> rbcdAttrValues(new_sd), controls |-> 0])
    /\ requests' = Append(requests, [call |-> call, request |-> "modify"])
    /\ UNCHANGED <<args, searched, keyCredentialLink, LOG, raised, concFrame>>

InitConc ==
    /\ keyCredentialLink \in ConcKeyCredentialLists
    /\ rbcdAttr \in [Objects -> ConcRbcdValues]
    /\ nTSecurityDescriptor = [o \in Objects |-> StoredSD(<<>>)]
    /\ initial = [keyCredentialLink |-> keyCredentialLink, rbcdAttr |-> rbcdAttr]
    /\ pc = [call \in Calls |-> "idle"]
    /\ args = [call \in Calls |-> [op |-> "none"]]
    /\ searched = [call \in Calls |-> [keyCreds |-> <<>>, new_sd |-> createEmptySD]]
    /\ raised = [call \in Calls |-> None]
    /\ idx = 0
    /\ ttl = None
    /\ tmp_record = None
    /\ record_to_remove = None
    /\ dnsRecord = <<>>
    /\ modifies = <<>>
    /\ LOG = <<>>
    /\ userAccountControl = <<>>
    /\ finished = <<>>
    /\ requests = <<>>

NextConc ==
    \/ \E call \in Calls, key \in ConcKeyArguments : shadowCredentialsSearch(call, key)
    \/ \E call \in Calls : shadowCredentialsModify(call)
    \/ \E call \in Calls, target \in Objects, service \in Trustees :
          rbcdSearch(call, target, service)
    \/ \E call \in Calls : rbcdModify(call)

SpecConc == InitConc /\ [][NextConc]_vars

(***************************************************************************)
(* remove.uac.  The raw value of userAccountControl is a decimal string,   *)
(* here the sequence of its digits; f is None or a list of flag names,     *)
(* here None or the one-element sequence holding the list.                 *)
(***************************************************************************)
MaxFlags == 2

UF_ACCOUNTDISABLE == 2
UF_DONT_REQUIRE_PREAUTH == 4194304

\* accesscontrol.ACCOUNT_FLAGS: the mask of each property flag.
ACCOUNT_FLAGS ==
    [n \in {"ACCOUNTDISABLE", "LOCKOUT", "DONT_REQ_PREAUTH"} |->
        IF n = "ACCOUNTDISABLE" THEN UF_ACCOUNTDISABLE
        ELSE IF n = "LOCKOUT" THEN 16 ELSE UF_DONT_REQUIRE_PREAUTH]

\* x | y on non-negative integers.
RECURSIVE BitOr(_, _)
BitOr(x, y) ==
    IF x = 0 THEN y
    ELSE IF y = 0 THEN x
    ELSE (IF x % 2 = 1 \/ y % 2 = 1 THEN 1 ELSE 0) + 2 * BitOr(x \div 2, y \div 2)

\* x & ~y on non-negative integers (Python integers have no width).
RECURSIVE AndNot(_, _)
AndNot(x, y) ==
    IF x = 0 THEN 0
    ELSE (IF x % 2 = 1 /\ y % 2 = 0 THEN 1 ELSE 0) + 2 * AndNot(x \div 2, y \div 2)

\* int(old_uac): the number a raw decimal string reads as.
RECURSIVE int(_)
int(raw) ==
    IF Len(raw) = 1 THEN raw[1]
    ELSE 10 * int(SubSeq(raw, 1, Len(raw) - 1)) + raw[Len(raw)]

\* The decimal string the directory stores for a number written.
RECURSIVE str(_)
str(n) == IF n < 10 THEN <<n>> ELSE Append(str(n \div 10), n % 10)

UacValues == {0, 2, 512, 514, 530, 4194816, 4194834}

\* The lists of flag names: each known flag at most once, one flag named twice, and a
\* name the table does not hold.
FlagLists ==
    {l \in UNION {[1..n -> DOMAIN ACCOUNT_FLAGS] : n \in 0..MaxFlags} :
        \A i, j \in 1..Len(l) : i # j => l[i] # l[j]}
    \cup {<<"LOCKOUT", "LOCKOUT">>, <<"NO_SUCH_FLAG">>}

\* What a caller passes as f.
FlagArguments == {None} \cup {<<f>> : f \in FlagLists}

\* for flag in f: uac |= accesscontrol.ACCOUNT_FLAGS[flag]
RECURSIVE uacOfFlags(_)
uacOfFlags(f) ==
    IF f = <<>> THEN 0
    ELSE BitOr(uacOfFlags(SubSeq(f, 1, Len(f) - 1)), ACCOUNT_FLAGS[f[Len(f)]])

\* Mutant: the flags are set in the old value instead of cleared.
removeFlagsSet(old_uac, uac_mask) == BitOr(int(old_uac), uac_mask)

\* uac = int(old_uac) & ~uac
removeFlags(old_uac, uac_mask) == AndNot(int(old_uac), uac_mask)

uacFrame == <<dnsRecord, idx, ttl, tmp_record, record_to_remove, aclDirectory,
              keyCredentialLink, finished, initial, requests>>

\* remove.uac(conn, target, f)
uac(target, f) ==
    /\ pc = "idle"
    /\ args' = [op |-> "uac", target |-> target, f |-> f]
    /\ pc' = "done"
    /\ IF f = None
          THEN /\ raised' = <<"TypeError">>
               /\ UNCHANGED <<userAccountControl, searched, modifies, LOG>>
          ELSE IF \E i \in 1..Len(f[1]) : f[1][i] \notin DOMAIN ACCOUNT_FLAGS
          THEN /\ raised' = <<"KeyError">>
               /\ UNCHANGED <<userAccountControl, searched, modifies, LOG>>
          ELSE /\ searched' = userAccountControl
               /\ IF Len(userAccountControl) = 0
                     THEN /\ \E message \in {"doesn't have the right to read userAccountControl",
                                             "doesn't have userAccountControl attribute"} :
                                raised' = <<"BloodyError", message>>
                          /\ UNCHANGED <<userAccountControl, modifies, LOG>>
                     ELSE LET old_uac == userAccountControl[1]
                              new_uac == removeFlags(old_uac, uacOfFlags(f[1]))
                          IN  /\ userAccountControl' = <<str(new_uac)>>
                              /\ modifies' = Append(modifies,
                                    [dn |-> target, attr |-> "userAccountControl",
                                     op |-> "MODIFY_REPLACE", value |-> <<str(new_uac)>>,
                                     controls |-> 0])
                              /\ LOG' = Append(LOG, "property flags removed")
                              /\ UNCHANGED raised
    /\ UNCHANGED uacFrame

InitUac ==
    /\ userAccountControl \in {<<>>} \cup {<<str(n)>> : n \in UacValues}
    /\ initial = [userAccountControl |-> userAccountControl]
    /\ args = [op |-> "none"]
    /\ pc = "idle"
    /\ searched = <<>>
    /\ idx = 0
    /\ ttl = None
    /\ tmp_record = None
    /\ record_to_remove = None
    /\ dnsRecord = <<>>
    /\ nTSecurityDescriptor = <<>>
    /\ rbcdAttr = <<>>
    /\ keyCredentialLink = <<>>
    /\ modifies = <<>>
    /\ LOG = <<>>
    /\ raised = None
    /\ finished = <<>>
    /\ requests = <<>>

NextUac ==
    \/ \E f \in FlagArguments : uac("target", f)
    \/ newCall

SpecUac == InitUac /\ [][NextUac]_vars

(***************************************************************************)
(* Properties of remove.shadowCredentials                                  *)
(***************************************************************************)
\* The bytes a well-formed key argument names.
KeyBytes ==
    [k \in {<<"a", "b">>, <<"A", "B">>, <<"c", "d">>, <<"0", "1">>} |->
        IF k \in {<<"a", "b">>, <<"A", "B">>} THEN <<171>>
        ELSE IF k = <<"c", "d">> THEN <<205>> ELSE <<1>>]

\* C7: with a key id, the list written back is the entries whose key id differs from it,
\* in their original order; without one it is empty; "No key found" is logged exactly
\* when no entry was removed (an empty list and a key id of no entry included).
C7_RemoveByKeyId ==
    (pc = "done" /\ args.op = "shadowCredentials" /\ raised = None) =>
        /\ Len(modifies) = 1
        /\ modifies[1].op = "MODIFY_REPLACE"
        /\ modifies[1].attr = "msDS-KeyCredentialLink"
        /\ keyCredentialLink = modifies[1].value
        /\ args.key # None =>
              modifies[1].value =
                  SelectSeq(searched, LAMBDA e : e.blob.KeyID # KeyBytes[args.key])
        /\ args.key = None => modifies[1].value = <<>>
        /\ (LOG = <<>>) <=> (Len(modifies[1].value) < Len(searched))
        /\ (LOG # <<>>) => LOG = <<"[!] No key found">>

\* A key id given in upper case removed the middle entry of three and kept the other two.
C7_Witness ==
    /\ pc = "done"
    /\ args.op = "shadowCredentials"
    /\ args.key = <<"A", "B">>
    /\ Len(searched) = 3
    /\ modifies[1].value = <<searched[1], searched[3]>>
    /\ LOG = <<>>


(***************************************************************************)
(* Properties of the revoke operations                                     *)
(***************************************************************************)
\* The DACL an operation works on: that of the object's nTSecurityDescriptor, or that of
\* its delegation attribute (no value: no entry).
DaclOf(op, object) ==
    IF op \in {"rbcd", "delRbcd"}
       THEN IF Len(rbcdAttr[object]) > 0
               THEN SR_SECURITY_DESCRIPTOR(rbcdAttr[object][1]).Dacl ELSE <<>>
       ELSE nTSecurityDescriptor[object].Dacl

\* The entries of a DACL but those of the trustee (with the mask, when one is given).
Without(aces, sid, mask) ==
    SelectSeq(aces, LAMBDA ace : ~(ace.Sid = sid /\ (mask = None \/ ace.Mask = mask[1])))

HasEntryOf(aces, sid) == \E i \in 1..Len(aces) : aces[i].Sid = sid

\* The step is a call of one of the operations ops, on object o for the trustee SID s.
CallOf(ops, o, s) ==
    /\ pc = "idle"
    /\ args'.op \in ops
    /\ args'.target = o
    /\ args'.sid = s

\* C3: dcsync and rbcd removal (revoke with the CONTROL_ACCESS mask) remove exactly the
\* entries of the trustee whose mask equals CONTROL_ACCESS; every entry of the trustee with
\* another mask and every entry of another trustee stays, in order.
C3_MaskedRevokeIsExact ==
    [][\A o \in Objects, s \in Sids :
          CallOf({"dcsync", "rbcd"}, o, s) =>
              \A op \in {args'.op} :
                  DaclOf(op, o)' = Without(DaclOf(op, o), s, <<ADS_RIGHT_DS_CONTROL_ACCESS>>)]_vars

\* A masked revoke ran on a DACL holding, for the trustee, a CONTROL_ACCESS entry and a
\* FULL_CONTROL entry: the second is still there.
C3_Witness ==
    /\ pc = "done"
    /\ args.op \in {"dcsync", "rbcd"}
    /\ searched # <<>>
    /\ \E i \in 1..Len(searched[1].Dacl.Data) :
          /\ searched[1].Dacl.Data[i].Sid = args.sid
          /\ searched[1].Dacl.Data[i].Mask = ADS_RIGHT_DS_CONTROL_ACCESS
    /\ \E i \in 1..Len(DaclOf(args.op, args.target)) :
          /\ DaclOf(args.op, args.target)[i].Sid = args.sid
          /\ DaclOf(args.op, args.target)[i].Mask = FULL_CONTROL

\* C4 (as claimed): genericAll and delRbcd (revoke without a mask) remove every entry of
\* the trustee whatever its mask or type; what remains is the entries of the other
\* trustees in their original order.
C4_UnmaskedRevokeRemovesAll ==
    [][\A o \in Objects, s \in Sids :
          CallOf({"genericAll", "delRbcd"}, o, s) =>
              \A op \in {args'.op} : DaclOf(op, o)' = Without(DaclOf(op, o), s, None)]_vars

\* C5: after a dcsync removal no entry with the trustee and the CONTROL_ACCESS mask is left
\* in the DACL of the domain object, whatever its object type.
C5_DcsyncRemovesBothGuids ==
    (pc = "done" /\ args.op = "dcsync") =>
        \A i \in 1..Len(nTSecurityDescriptor["domainNC"].Dacl) :
            LET ace == nTSecurityDescriptor["domainNC"].Dacl[i]
            IN  ~(ace.Sid = args.sid /\ ace.Mask = ADS_RIGHT_DS_CONTROL_ACCESS)

\* dcsync ran on a DACL that held both replication ACEs of the trustee, and other entries
\* are left.
C5_Witness ==
    /\ pc = "done"
    /\ args.op = "dcsync"
    /\ \A g \in {GetChanges, GetChangesAll} :
          \E i \in 1..Len(searched[1].Dacl.Data) :
              searched[1].Dacl.Data[i] = createACE(args.sid, g, ADS_RIGHT_DS_CONTROL_ACCESS)
    /\ nTSecurityDescriptor["domainNC"].Dacl # <<>>

\* C6: rbcd removal writes the empty value set exactly when no entry is left after the
\* revoke, and otherwise one descriptor holding the entries left; no request ever writes
\* a descriptor with an empty DACL to the delegation attribute.
C6_RbcdClearsWhenEmpty ==
    [][\A o \in Objects, s \in Sids :
          /\ CallOf({"rbcd"}, o, s) =>
                LET left == Without(DaclOf("rbcd", o), s, <<ADS_RIGHT_DS_CONTROL_ACCESS>>)
                    written == modifies'[Len(modifies')]
                IN  /\ Len(modifies') = Len(modifies) + 1
                    /\ written.dn = o
                    /\ written.attr = "msDS-AllowedToActOnBehalfOfOtherIdentity"
                    /\ written.op = "MODIFY_REPLACE"
                    /\ (written.value = <<>>) <=> (left = <<>>)
                    /\ left # <<>> =>
                          /\ Len(written.value) = 1
                          /\ SR_SECURITY_DESCRIPTOR(written.value[1]).Dacl = left
                    /\ rbcdAttr'[o] = written.value
          /\ \A i \in 1..Len(modifies') :
                modifies'[i].attr = "msDS-AllowedToActOnBehalfOfOtherIdentity" =>
                    \A k \in 1..Len(modifies'[i].value) :
                        modifies'[i].value[k].Dacl.AceCount > 0]_vars

\* rbcd removal took the last entries out of a stored descriptor and cleared the attribute.
C6_Witness ==
    /\ pc = "done"
    /\ args.op = "rbcd"
    /\ searched # <<>>
    /\ searched[1].Dacl.AceCount > 0
    /\ modifies[1].value = <<>>
    /\ rbcdAttr[args.target] = <<>>

\* C9 (as claimed): a revoke for a trustee that has no entry in the DACL ends without an
\* exception and leaves the entries of the DACL and their order as they were.
C9_AbsentTrusteeIsNoOp ==
    [][\A o \in Objects, s \in Sids :
          \A op \in {"dcsync", "genericAll", "rbcd", "delRbcd"} :
              (CallOf({op}, o, s) /\ ~HasEntryOf(DaclOf(op, o), s)) =>
                  /\ raised' = None
                  /\ DaclOf(op, o)' = DaclOf(op, o)]_vars


(***************************************************************************)
(* Properties of remove.dnsRecord                                          *)
(***************************************************************************)
\* The index of the raw record the last executed iteration examined (0: none yet).
Examined == IF record_to_remove # None THEN idx ELSE idx - 1

NoTtlArgument == ~Truthy(args.ttl)

\* The stored record R carries the requested type and data (and the requested ttl when the
\* caller gave one): the candidate built from R's own Rank, Serial and TtlSeconds is R.
SameAsRequest(R) ==
    fromDict(args.data, args.dnstype,
             IF NoTtlArgument THEN RecordTtlSeconds(R) ELSE args.ttl[1],
             RecordRank(R), RecordSerial(R), args.preference) = R

\* C1 (as claimed): with no ttl argument, the candidate of every iteration carries the
\* TtlSeconds of the record it is compared with, so a stored record equal to the request in
\* type and data is removed wherever it stands in the list.
C1_CandidateUsesOwnTtl ==
    /\ (NoTtlArgument /\ Examined >= 1)
          => RecordTtlSeconds(tmp_record) = RecordTtlSeconds(searched[Examined])
    /\ (pc = "done" /\ NoTtlArgument /\ \E i \in 1..Len(searched) : SameAsRequest(searched[i]))
          => /\ Len(modifies) = 1
             /\ SameAsRequest(modifies[1].value)

\* C2: a delete request removes at most one stored value; the removed value is one of the
\* stored values, its encoded type and payload are those of the request, and every other
\* stored value stays in the attribute, in place.
C2_RemovesOnlyTheMatch ==
    pc = "done" =>
        /\ Len(modifies) <= 1
        /\ modifies = <<>> => dnsRecord = searched
        /\ modifies # <<>> =>
              LET removed == modifies[1].value
              IN  /\ RecordType(removed) = TypeCode(args.dnstype)
                  /\ RecordPayload(removed) = Payload(args.data, args.dnstype, args.preference)
                  /\ \E k \in 1..Len(searched) :
                        /\ searched[k] = removed
                        /\ dnsRecord = SubSeq(searched, 1, k - 1)
                                       \o SubSeq(searched, k + 1, Len(searched))

\* A record was removed while another record of the same type with other data stays.
C2_Witness ==
    /\ pc = "done"
    /\ Len(modifies) = 1
    /\ \E i \in 1..Len(dnsRecord) :
          /\ RecordType(dnsRecord[i]) = RecordType(modifies[1].value)
          /\ RecordPayload(dnsRecord[i]) # RecordPayload(modifies[1].value)

\* C8: when no stored record equals the request (an empty attribute included) the call
\* logs "Record not found", returns without an exception, issues no modify request and
\* leaves the stored records as they were.
C8_NotFoundIsNoWrite ==
    (pc = "done" /\ \A i \in 1..Len(searched) : ~SameAsRequest(searched[i]))
        => /\ LOG = <<"[!] Record not found">>
           /\ raised = None
           /\ modifies = <<>>
           /\ dnsRecord = searched

\* The call ended on "not found" with records of the requested type stored under the name.
C8_Witness ==
    /\ pc = "done"
    /\ LOG = <<"[!] Record not found">>
    /\ \E i \in 1..Len(searched) : RecordType(searched[i]) = TypeCode(args.dnstype)
    /\ \A i \in 1..Len(searched) : ~SameAsRequest(searched[i])

\* C10: in every iteration the candidate's Rank and Serial are those decoded from the raw
\* record it is compared with in that iteration.
C10_RankSerialOfCurrentRecord ==
    Examined >= 1 =>
        /\ RecordRank(tmp_record) = RecordRank(searched[Examined])
        /\ RecordSerial(tmp_record) = RecordSerial(searched[Examined])

\* A second iteration ran on a record whose Rank and Serial differ from the first one's.
C10_Witness ==
    /\ Examined >= 2
    /\ RecordRank(searched[Examined]) # RecordRank(searched[1])
    /\ RecordSerial(searched[Examined]) # RecordSerial(searched[1])

(***************************************************************************)
(* Grants followed by a revoke or by a second grant.                       *)
(***************************************************************************)
\* The DACL an attribute value list of the delegation attribute carries.
RbcdDaclOf(values) ==
    IF Len(values) > 0 THEN SR_SECURITY_DESCRIPTOR(values[1]).Dacl ELSE <<>>

\* The call before the running one was setRbcd, and the running one is the revoke of
\* the same service on the same target; both have ended.
GrantThenRevoke ==
    /\ pc = "done"
    /\ Len(finished) = 1
    /\ finished[1].args.op = "setRbcd"
    /\ args.op \in {"rbcd", "delRbcd"}
    /\ args.target = finished[1].args.target
    /\ args.sid = finished[1].args.sid

\* C11: when the delegation DACL of the target holds no entry of the service, setRbcd
\* for the service followed by the removal of the service's delegation both complete,
\* the first having written the grant, and leave the DACL as it was at first, same
\* entries in the same order; an attribute that was absent or empty at first is cleared.
C11_GrantThenRevokeRestores ==
    (/\ GrantThenRevoke
     /\ ~HasEntryOf(RbcdDaclOf(initial.rbcdAttr[args.target]), args.sid))
    => /\ finished[1].raised = None
       /\ raised = None
       /\ Len(modifies) = 2
       /\ modifies[1].dn = args.target
       /\ RbcdDaclOf(modifies[1].value) =
             Append(RbcdDaclOf(initial.rbcdAttr[args.target]), createACEOfSid(args.sid))
       /\ RbcdDaclOf(rbcdAttr[args.target]) = RbcdDaclOf(initial.rbcdAttr[args.target])
       /\ (RbcdDaclOf(initial.rbcdAttr[args.target]) = <<>> => rbcdAttr[args.target] = <<>>)

GrantOps == {"setRbcd", "addDomainSync", "modifyGpoACL"}

\* The ACEs one call of a grant operation appends for the trustee.
NewAces(op, sid) ==
    IF op = "addDomainSync"
       THEN <<createACE(sid, GetChanges, ADS_RIGHT_DS_CONTROL_ACCESS),
              createACE(sid, GetChangesAll, ADS_RIGHT_DS_CONTROL_ACCESS)>>
       ELSE <<createACEOfSid(sid)>>

\* The DACL a grant operation works on, in a directory (the stored one or the first).
GrantDaclOf(op, rbcdValues, descriptors, object) ==
    IF op = "setRbcd" THEN RbcdDaclOf(rbcdValues[object]) ELSE descriptors[object].Dacl

\* The directory turned the call down: no such policy container, or the write refused.
Refused(exception) == exception \in {<<"NoResultError">>, <<"ResultError">>}

\* The running call is a grant that has ended, every call before it was the same grant
\* with the same arguments, and the directory turned none of them down.
SameGrantEachCall ==
    /\ pc = "done"
    /\ args.op \in GrantOps
    /\ ~Refused(raised)
    /\ \A i \in 1..Len(finished) : finished[i].args = args /\ ~Refused(finished[i].raised)

\* C12: after one call of a grant operation (setRbcd, addDomainSync, modifyGpoACL) the
\* DACL of the target is the DACL it had at first followed by the new ACE(s) of the
\* trustee, and after a second call with the same arguments it is followed by them
\* twice: existing entries and their order are kept, nothing is de-duplicated, and the
\* descriptor is written to the object it was read from.
C12_GrantAppendsAtEnd ==
    SameGrantEachCall
    => LET before == GrantDaclOf(args.op, initial.rbcdAttr, initial.nTSecurityDescriptor,
                                 args.target)
           new == NewAces(args.op, args.sid)
           after == GrantDaclOf(args.op, rbcdAttr, nTSecurityDescriptor, args.target)
       IN  /\ after = IF Len(finished) = 0 THEN before \o new ELSE before \o new \o new
           /\ Len(modifies) = Len(finished) + 1
           /\ \A i \in 1..Len(modifies) : modifies[i].dn = args.target

(***************************************************************************)
(* Concurrent removals on different objects.                               *)
(***************************************************************************)
\* The attribute a call works on, in the directory now and at first.
AttributeOf(call) ==
    IF args[call].op = "shadowCredentials" THEN keyCredentialLink
    ELSE rbcdAttr[args[call].target]

InitialAttributeOf(call) ==
    IF args[call].op = "shadowCredentials" THEN initial.keyCredentialLink
    ELSE initial.rbcdAttr[args[call].target]

\* What the operation of the call writes when it runs alone on the first directory.
AloneResult(call) ==
    LET first == InitialAttributeOf(call)
    IN  IF args[call].op = "shadowCredentials"
           THEN LET key == args[call].key
                IN  IF key = None \/ first = <<>> THEN <<>>
                    ELSE IF key \notin DOMAIN KeyBytes THEN first
                    ELSE SelectSeq(first, LAMBDA keyCred : keyCred.blob.KeyID # KeyBytes[key])
           ELSE LET kept == Without(RbcdDaclOf(first), args[call].sid,
                                    <<ADS_RIGHT_DS_CONTROL_ACCESS>>)
                IN  IF kept = <<>> THEN <<>>
                    ELSE <<[first[1] EXCEPT !.Dacl = [AceCount |-> Len(kept), Data |-> kept]]>>

\* C13: two remove operations (shadowCredentials, rbcd) that run at the same time on
\* different objects do not interfere: however their searches and modifies interleave,
\* the attribute of each object holds, once its call has ended, what the operation
\* writes when it runs alone, and an attribute no call has written is as it was.
C13_ConcurrentCallsDoNotInterfere ==
    /\ \A call \in Calls : pc[call] = "done" => AttributeOf(call) = AloneResult(call)
    /\ \A object \in Objects :
          (\A call \in Calls : IF pc[call] = "done" /\ args[call].op = "rbcd"
                                  THEN args[call].target # object ELSE TRUE)
          => rbcdAttr[object] = initial.rbcdAttr[object]
    /\ (\A call \in Calls : IF pc[call] = "done" /\ raised[call] = None
                               THEN args[call].op # "shadowCredentials" ELSE TRUE)
          => keyCredentialLink = initial.keyCredentialLink

\* Both calls searched before either modified, and each removed something.
C13_Witness ==
    /\ \A call \in Calls : pc[call] = "done"
    /\ Len(requests) = 4
    /\ requests[1].request = "search" /\ requests[2].request = "search"
    /\ requests[3].request = "modify" /\ requests[4].request = "modify"
    /\ \A call \in Calls : AttributeOf(call) # InitialAttributeOf(call)
    /\ \E call \in Calls : args[call].op = "shadowCredentials"

(***************************************************************************)
(* What dcsync and genericAll leave alone in the stored descriptor.        *)
(***************************************************************************)
\* C14: a dcsync or genericAll removal sends one modify request, a replace of
\* nTSecurityDescriptor on the object the descriptor was read from (the domain for
\* dcsync, the target for genericAll), under the DACL-only control; the owner, the group
\* and the SACL of the stored descriptor are after the step what they were before it,
\* and the descriptors of the other objects are unchanged.
C14_OnlyTheDaclIsWritten ==
    [][CallOf({"dcsync", "genericAll"}, args'.target, args'.sid)
       => LET object == args'.target
              request == modifies'[Len(modifies')]
          IN  /\ Len(modifies') = Len(modifies) + 1
              /\ (args'.op = "dcsync" => object = "domainNC")
              /\ request.dn = object
              /\ request.attr = "nTSecurityDescriptor"
              /\ request.op = "MODIFY_REPLACE"
              /\ request.controls = DACL_SECURITY_INFORMATION
              /\ searched'[1].Dacl.Data = nTSecurityDescriptor[object].Dacl
              /\ nTSecurityDescriptor'[object].Owner = nTSecurityDescriptor[object].Owner
              /\ nTSecurityDescriptor'[object].Group = nTSecurityDescriptor[object].Group
              /\ nTSecurityDescriptor'[object].Sacl = nTSecurityDescriptor[object].Sacl
              /\ nTSecurityDescriptor'[object].Dacl = request.value[1].Dacl.Data
              /\ \A other \in Objects \ {object} :
                    nTSecurityDescriptor'[other] = nTSecurityDescriptor[other]]_vars

\* A removal that changed the DACL, read under the DACL-only control: the descriptor
\* written carries no owner and no SACL, the stored one still has both.
C14_Witness ==
    /\ pc = "done"
    /\ args.op \in {"dcsync", "genericAll"}
    /\ Len(modifies) = 1
    /\ modifies[1].value[1].Dacl # searched[1].Dacl
    /\ modifies[1].value[1].Owner = None
    /\ modifies[1].value[1].Sacl = None
    /\ nTSecurityDescriptor[args.target].Owner # None
    /\ nTSecurityDescriptor[args.target].Sacl # None
    /\ nTSecurityDescriptor[args.target].Dacl = modifies[1].value[1].Dacl.Data

(***************************************************************************)
(* Properties of remove.uac                                                *)
(***************************************************************************)
\* Bit b of a non-negative integer.
Bit(n, b) == (n \div (2 ^ b)) % 2

\* The flag names of the list f whose mask has bit b.
NamesBit(f, b) == \E i \in 1..Len(f) : Bit(ACCOUNT_FLAGS[f[i]], b) = 1

\* The step is a call of uac that ends without an exception.
UacWrites == pc = "idle" /\ args'.op = "uac" /\ raised' = None

\* C15: a uac removal replaces userAccountControl by a value in which every bit of the
\* mask of a named flag is 0 and every other bit is what it was in the old value (old
\* AND NOT the OR of the masks); when the call before it was the same removal, the
\* value written is the value the first one wrote.
C15_NamedFlagBitsCleared ==
    [][UacWrites
       => LET old == int(userAccountControl[1])
              new == int(userAccountControl'[1])
              f == args'.f[1]
          IN  /\ modifies' = Append(modifies,
                    [dn |-> args'.target, attr |-> "userAccountControl",
                     op |-> "MODIFY_REPLACE", value |-> userAccountControl', controls |-> 0])
              /\ Len(userAccountControl') = 1
              /\ new <= old
              /\ \A b \in 0..22 : Bit(new, b) = IF NamesBit(f, b) THEN 0 ELSE Bit(old, b)
              /\ (/\ Len(finished) > 0
                  /\ finished[Len(finished)].args = args'
                  /\ finished[Len(finished)].raised = None)
                 => modifies'[Len(modifies')].value = modifies[Len(modifies)].value]_vars

\* The same removal of two flags ran twice; the first cleared bits of the old value and
\* left others set, the second wrote the same value.
C15_Witness ==
    /\ pc = "done"
    /\ args.op = "uac"
    /\ raised = None
    /\ Len(finished) = 1
    /\ finished[1].args = args
    /\ finished[1].raised = None
    /\ Len(modifies) = 2
    /\ modifies[1].value = modifies[2].value
    /\ args.f = <<(<<"DONT_REQ_PREAUTH", "ACCOUNTDISABLE">>)>>
    /\ initial.userAccountControl = <<str(4194834)>>
    /\ userAccountControl = <<str(528)>>
====
